---- MODULE Spec2Model ----
(***************************************************************************)
(* Model of the video catalogue module (src/src/module/video.js): the     *)
(* `videos` table, the operations of class Video, and the JSON codec the  *)
(* module uses for its two structured columns.                            *)
(***************************************************************************)
EXTENDS Integers, Sequences, FiniteSets, TLC

(***************************************************************************)
(* Bounds of the model.                                                   *)
(***************************************************************************)
MaxVideos == 2          \* cap on the number of rows of the videos table
MaxPage == 3            \* getVideoList pages are drawn from 1..MaxPage
MaxSize == 2            \* getVideoList sizes are drawn from 1..MaxSize
MaxMetaId == 2          \* getVideoList metadata filters are drawn from 0..MaxMetaId

Callers == {"c1", "c2"} \* concurrent requests served by the single instance

(***************************************************************************)
(* JavaScript values that reach the module, as tagged records.            *)
(***************************************************************************)
Str(s) == [t |-> "str", s |-> s]
Num(n) == [t |-> "num", n |-> n]
Arr(a) == [t |-> "arr", a |-> a]
Obj(k, v) == [t |-> "obj", k |-> k, v |-> v]
Null == [t |-> "null"]
Undefined == [t |-> "undefined"]

\* property read obj[key]; undefined when the object has no such key
RECURSIVE GetFrom(_, _, _)
GetFrom(o, key, i) ==
    IF i > Len(o.k) THEN Undefined
    ELSE IF o.k[i] = key THEN o.v[i]
    ELSE GetFrom(o, key, i + 1)

Get(o, key) == IF o.t = "obj" THEN GetFrom(o, key, 1) ELSE Undefined

(***************************************************************************)
(* JSON text, as the sequence of its lexical tokens.                      *)
(***************************************************************************)
P(c) == [k |-> "punct", c |-> c]
StrTok(s) == [k |-> "string", c |-> s]
NumTok(n) == [k |-> "number", n |-> n]
LitTok(c) == [k |-> "literal", c |-> c]
IsP(tok, c) == tok.k = "punct" /\ tok.c = c

\* what a failed JSON.parse throws
SyntaxError == [t |-> "SyntaxError"]

RECURSIVE SerializeValue(_)
RECURSIVE SerializeElements(_, _)
RECURSIVE SerializeMembers(_, _, _)

\* elements of an array from index i on; an undefined element is written null
SerializeElements(a, i) ==
    IF i > Len(a) THEN << >>
    ELSE (IF i > 1 THEN <<P(",")>> ELSE << >>)
         \o (IF a[i].t = "undefined" THEN <<LitTok("null")>>
             ELSE SerializeValue(a[i]))
         \o SerializeElements(a, i + 1)

\* members of an object from index i on; a member whose value is undefined
\* is left out
SerializeMembers(o, i, first) ==
    IF i > Len(o.k) THEN << >>
    ELSE IF o.v[i].t = "undefined" THEN SerializeMembers(o, i + 1, first)
    ELSE (IF first THEN << >> ELSE <<P(",")>>)
         \o <<StrTok(o.k[i]), P(":")>> \o SerializeValue(o.v[i])
         \o SerializeMembers(o, i + 1, FALSE)

SerializeValue(v) ==
    CASE v.t = "str" -> <<StrTok(v.s)>>
      [] v.t = "num" -> <<NumTok(v.n)>>
      [] v.t = "null" -> <<LitTok("null")>>
      [] v.t = "arr" -> <<P("[")>> \o SerializeElements(v.a, 1) \o <<P("]")>>
      [] v.t = "obj" -> <<P("{")>> \o SerializeMembers(v, 1, TRUE) \o <<P("}")>>

\* the column value of "no text": JSON.stringify(undefined) is undefined,
\* which the insert stores as NULL
NullText == <<LitTok("NULL")>>

JSON_stringify(v) == IF v.t = "undefined" THEN NullText ELSE SerializeValue(v)

Fail == [ok |-> FALSE]
Parsed(v, next) == [ok |-> TRUE, val |-> v, next |-> next]

RECURSIVE ParseValue(_, _)
RECURSIVE ParseElements(_, _, _)
RECURSIVE ParseMembers(_, _, _, _)

\* the elements of an array, toks[i] being the first token of an element
ParseElements(toks, i, acc) ==
    LET r == ParseValue(toks, i) IN
    IF ~r.ok \/ r.next > Len(toks) THEN Fail
    ELSE IF IsP(toks[r.next], ",")
         THEN ParseElements(toks, r.next + 1, Append(acc, r.val))
    ELSE IF IsP(toks[r.next], "]")
         THEN Parsed(Arr(Append(acc, r.val)), r.next + 1)
    ELSE Fail

\* the members of an object, toks[i] being the key of a member
ParseMembers(toks, i, ks, vs) ==
    IF i + 1 > Len(toks) THEN Fail
    ELSE IF toks[i].k # "string" \/ ~IsP(toks[i + 1], ":") THEN Fail
    ELSE LET r == ParseValue(toks, i + 2) IN
         IF ~r.ok \/ r.next > Len(toks) THEN Fail
         ELSE IF IsP(toks[r.next], ",")
              THEN ParseMembers(toks, r.next + 1,
                                Append(ks, toks[i].c), Append(vs, r.val))
         ELSE IF IsP(toks[r.next], "}")
              THEN Parsed(Obj(Append(ks, toks[i].c), Append(vs, r.val)),
                          r.next + 1)
         ELSE Fail

ParseValue(toks, i) ==
    IF i > Len(toks) THEN Fail
    ELSE LET tok == toks[i] IN
         CASE tok.k = "string" -> Parsed(Str(tok.c), i + 1)
           [] tok.k = "number" -> Parsed(Num(tok.n), i + 1)
           [] tok.k = "literal" ->
                IF tok.c = "null" THEN Parsed(Null, i + 1) ELSE Fail
           [] IsP(tok, "[") ->
                IF i + 1 <= Len(toks) /\ IsP(toks[i + 1], "]")
                THEN Parsed(Arr(<< >>), i + 2)
                ELSE ParseElements(toks, i + 1, << >>)
           [] IsP(tok, "{") ->
                IF i + 1 <= Len(toks) /\ IsP(toks[i + 1], "}")
                THEN Parsed(Obj(<< >>, << >>), i + 2)
                ELSE ParseMembers(toks, i + 1, << >>, << >>)
           [] OTHER -> Fail

\* JSON.parse(text); a NULL column is coerced to the text "null"
JSON_parse(text) ==
    LET toks == IF text = NullText THEN <<LitTok("null")>> ELSE text
        r == ParseValue(toks, 1)
    IN IF r.ok /\ r.next = Len(toks) + 1 THEN r.val ELSE SyntaxError

\* JSON_EXTRACT(videoMetadata, '$.hash'): the hash member of the stored text
JSON_EXTRACT_hash(text) ==
    LET v == JSON_parse(text) IN
    IF v = SyntaxError THEN Undefined ELSE Get(v, "hash")

(***************************************************************************)
(* Inputs: the info objects and file-id bundles handed to createVideo.    *)
(***************************************************************************)
InfoA == Obj(<<"company", "id", "hash">>, <<Str("ABC"), Str("001"), Str("h1")>>)
\* same hash as InfoA, every other field different, with nested values
InfoB == Obj(<<"hash", "company", "id", "tags">>,
             <<Str("h1"), Str("XYZ"), Str("002"),
               Obj(<<"actors", "year">>, <<Arr(<<Str("a")>>), Num(2019)>>)>>)
\* another file of the title of InfoA: same identity key, another hash
InfoC == Obj(<<"company", "id", "hash", "cover">>,
             <<Str("ABC"), Str("001"), Str("h2"), Null>>)
InfoD == Obj(<<"company", "id", "hash">>, <<Str("XYZ"), Str("002"), Str("h3")>>)
Infos == {InfoA, InfoB, InfoC, InfoD}
Hashes == {Str("h1"), Str("h2"), Str("h3"), Str("h4")}

FilesA == [metaId |-> 12, videoId |-> 11, storyboardId |-> Arr(<< >>)]
FilesB == [metaId |-> 22, videoId |-> 21,
           storyboardId |-> Arr(<<Num(23), Num(24)>>)]
FileIdSets == {FilesA, FilesB}

\* the createVideo calls made: an info object with the ids of its files
Ingests == {<<InfoA, FilesA>>, <<InfoB, FilesB>>, <<InfoC, FilesB>>,
            <<InfoD, FilesA>>}

\* (new Date()).getTime(): the wall clock is an input of the module
Times == {1000}

\* ids a caller may ask for: those the table can hold and one it cannot
Ids == 1..(MaxVideos + 1)

VARIABLES
    videos,         \* the rows of the videos table
    autoIncrement,  \* the AUTO_INCREMENT counter of videos.id
    pc,             \* per caller: the statement its call is awaiting
    frame,          \* per caller: arguments and locals of its call
    ret,            \* per caller: the outcome of its finished call
    lastUpdate      \* history, per id: "none" until a hideVideo matched the
                    \* id, then the last update that matched it, "hide" or
                    \* "unhide"; recorded where calls do not overlap

vars == <<videos, autoIncrement, pc, frame, ret, lastUpdate>>

NoFrame == [op |-> "none"]
NoRet == [kind |-> "none"]
Return(v) == [kind |-> "return", val |-> v]
Throw(e) == [kind |-> "throw", err |-> e]
Bool(b) == [t |-> "bool", b |-> b]

\* rows whose JSON_EXTRACT(videoMetadata, '$.hash') equals the bound hash
WhereHash(table, hash) ==
    {r \in table : JSON_EXTRACT_hash(r.videoMetadata) = hash}

\* a lookup that binds the wrong member of info
LookupByJavId(table, info) == WhereHash(table, Get(info, "id"))

\* the rows the query of line 110 matches
LookupByHash(table, info) == WhereHash(table, Get(info, "hash"))

RowsById(table, id) == {r \in table : r.id = id}

\* callers whose createVideo may still insert a row
Creating == {p \in Callers : pc[p] \in {"lookup", "link", "insert"}}

Init ==
    /\ videos = {}
    /\ autoIncrement = 1
    /\ pc = [p \in Callers |-> "idle"]
    /\ frame = [p \in Callers |-> NoFrame]
    /\ ret = [p \in Callers |-> NoRet]
    /\ lastUpdate = [i \in Ids |-> "none"]

(***************************************************************************)
(* createVideo (video.js 107-137): three awaited statements.              *)
(***************************************************************************)
\* the call is made and the hash lookup is issued
CallCreateVideo(p) ==
    /\ pc[p] = "idle"
    /\ \E info \in Infos, fileIds \in FileIdSets :
          /\ <<info, fileIds>> \in Ingests
          /\ \/ Cardinality(videos) + Cardinality(Creating) < MaxVideos
             \/ LookupByHash(videos, info) # {}
          /\ frame' = [frame EXCEPT ![p] =
                 [op |-> "createVideo", info |-> info, fileIds |-> fileIds,
                  JAVID |-> Get(info, "company").s \o "-" \o Get(info, "id").s]]
    /\ pc' = [pc EXCEPT ![p] = "lookup"]
    /\ UNCHANGED <<videos, autoIncrement, ret, lastUpdate>>

\* the lookup answers: .first() of the matching rows, in no stated order
\* the linker asked although the lookup answered a row
CreateLinkDespiteFound(p) ==
    /\ pc[p] = "lookup"
    /\ LookupByHash(videos, frame[p].info) # {}
    /\ pc' = [pc EXCEPT ![p] = "link"]
    /\ UNCHANGED <<videos, autoIncrement, frame, ret, lastUpdate>>

CreateLookupFound(p) ==
    /\ pc[p] = "lookup"
    /\ \E result \in LookupByHash(videos, frame[p].info) :
          /\ result.id # 0
          /\ ret' = [ret EXCEPT ![p] = Return(Num(result.id))]
    /\ pc' = [pc EXCEPT ![p] = "done"]
    /\ UNCHANGED <<videos, autoIncrement, frame, lastUpdate>>

\* no row matched, or the row's id is falsy: on to the Metadata Linker
CreateLookupMissing(p) ==
    /\ pc[p] = "lookup"
    /\ \/ LookupByHash(videos, frame[p].info) = {}
       \/ \E result \in LookupByHash(videos, frame[p].info) : result.id = 0
    /\ pc' = [pc EXCEPT ![p] = "link"]
    /\ UNCHANGED <<videos, autoIncrement, frame, ret, lastUpdate>>

\* the metadata entity of an identity key: stable, one per key
MetadataIdOf(JAVID) ==
    CASE JAVID = "ABC-001" -> 1
      [] JAVID = "XYZ-002" -> 2
      [] OTHER -> 1

\* what metadata.getMetadataId(JAVID) may answer: 0 when the linkage fails,
\* the id of the key's metadata entity otherwise
getMetadataId(JAVID) == {0, MetadataIdOf(JAVID)}

\* a test that takes every answer of the linker for a metadata id
LinkageNeverFailed(metaId) == FALSE

\* the test of line 121
LinkageFailed(metaId) == metaId = 0

\* the Metadata Linker answers; on success the insert is issued
CreateLink(p) ==
    /\ pc[p] = "link"
    /\ \E metaId \in getMetadataId(frame[p].JAVID), now \in Times :
          IF LinkageFailed(metaId)
          THEN /\ ret' = [ret EXCEPT ![p] = Return(Undefined)]
               /\ pc' = [pc EXCEPT ![p] = "done"]
               /\ frame' = [frame EXCEPT ![p] =
                      frame[p] @@ [metaId |-> metaId]]
          ELSE /\ frame' = [frame EXCEPT ![p] =
                      frame[p] @@ [metaId |-> metaId, updateTime |-> now]]
               /\ pc' = [pc EXCEPT ![p] = "insert"]
               /\ ret' = ret
    /\ UNCHANGED <<videos, autoIncrement, lastUpdate>>

\* the row with the whole fileIds object encoded in the storyboard column
NewRowWholeFileIds(id, info, fileIds, metaId, now) ==
    [id |-> id,
     videoMetadata |-> JSON_stringify(info),
     isHiden |-> 0,
     videoFileId |-> fileIds.videoId,
     metadataId |-> metaId,
     storyboardFileIdSet |->
         JSON_stringify(Obj(<<"metaId", "videoId", "storyboardId">>,
                            <<Num(fileIds.metaId), Num(fileIds.videoId),
                              fileIds.storyboardId>>)),
     infoFileId |-> fileIds.metaId,
     updateTime |-> now]

\* the row inserted with the isHiden column set
NewRowHidden(id, info, fileIds, metaId, now) ==
    [id |-> id,
     videoMetadata |-> JSON_stringify(info),
     isHiden |-> 1,
     videoFileId |-> fileIds.videoId,
     metadataId |-> metaId,
     storyboardFileIdSet |-> JSON_stringify(fileIds.storyboardId),
     infoFileId |-> fileIds.metaId,
     updateTime |-> now]

\* the row of lines 125-133
NewRow(id, info, fileIds, metaId, now) ==
    [id |-> id,
     videoMetadata |-> JSON_stringify(info),
     isHiden |-> 0,
     videoFileId |-> fileIds.videoId,
     metadataId |-> metaId,
     storyboardFileIdSet |-> JSON_stringify(fileIds.storyboardId),
     infoFileId |-> fileIds.metaId,
     updateTime |-> now]

\* the insert is executed and answers the new id
CreateInsert(p) ==
    /\ pc[p] = "insert"
    /\ videos' = videos \cup
          {NewRow(autoIncrement, frame[p].info, frame[p].fileIds,
                  frame[p].metaId, frame[p].updateTime)}
    /\ autoIncrement' = autoIncrement + 1
    /\ ret' = [ret EXCEPT ![p] = Return(Num(autoIncrement))]
    /\ pc' = [pc EXCEPT ![p] = "done"]
    /\ UNCHANGED <<frame, lastUpdate>>

(***************************************************************************)
(* hideVideo / unhideVideo (video.js 79-94): one UPDATE statement each.   *)
(***************************************************************************)
\* the UPDATE also stamping the row's updateTime
UpdateTouchingTime(table, id, flag) ==
    {IF r.id = id THEN [r EXCEPT !.isHiden = flag, !.updateTime = @ + 1]
     ELSE r : r \in table}

\* the UPDATE without its where clause
UpdateAllRows(table, id, flag) == {[r EXCEPT !.isHiden = flag] : r \in table}

\* db('videos').where('id', id).update('isHiden', flag): the table afterwards
Update(table, id, flag) ==
    {IF r.id = id THEN [r EXCEPT !.isHiden = flag] ELSE r : r \in table}

\* the number of rows the UPDATE matched, which the statement answers
Affected(table, id) == Cardinality(RowsById(table, id))

\* the test applied to the pending statement instead of its answer (a
\* missing await): an object is always truthy
TruthyPromise(n) == TRUE

\* the truthiness test of lines 80 and 92
Truthy(n) == n # 0

CallHideVideo(p) ==
    /\ pc[p] = "idle"
    /\ \E id \in Ids : frame' = [frame EXCEPT ![p] = [op |-> "hideVideo", id |-> id]]
    /\ pc' = [pc EXCEPT ![p] = "hide"]
    /\ UNCHANGED <<videos, autoIncrement, ret, lastUpdate>>

hideVideo(p) ==
    /\ pc[p] = "hide"
    /\ videos' = Update(videos, frame[p].id, 1)
    /\ ret' = [ret EXCEPT ![p] =
           Return(Bool(Truthy(Affected(videos, frame[p].id))))]
    /\ pc' = [pc EXCEPT ![p] = "done"]
    /\ UNCHANGED <<autoIncrement, frame>>

CallUnhideVideo(p) ==
    /\ pc[p] = "idle"
    /\ \E id \in Ids : frame' = [frame EXCEPT ![p] = [op |-> "unhideVideo", id |-> id]]
    /\ pc' = [pc EXCEPT ![p] = "unhide"]
    /\ UNCHANGED <<videos, autoIncrement, ret, lastUpdate>>

unhideVideo(p) ==
    /\ pc[p] = "unhide"
    /\ videos' = Update(videos, frame[p].id, 0)
    /\ ret' = [ret EXCEPT ![p] =
           Return(Bool(Truthy(Affected(videos, frame[p].id))))]
    /\ pc' = [pc EXCEPT ![p] = "done"]
    /\ UNCHANGED <<autoIncrement, frame>>

(***************************************************************************)
(* getVideoInfo (video.js 13-29).                                         *)
(***************************************************************************)
\* line 17, `!result`: .select('*') answers the array of the matching
\* rows, and an array, empty or not, is truthy
IsFalsy(rows) == FALSE

\* line 17 never returns; building the object literal of lines 19-28 then
\* reads the undeclared name `item` on line 23, which throws
getVideoInfoResult(table, id) ==
    LET result == RowsById(table, id)
    IN IF IsFalsy(result) THEN Return(Null)
       ELSE Throw("ReferenceError")

getVideoInfo(p) ==
    /\ pc[p] = "idle"
    /\ \E id \in Ids :
          /\ frame' = [frame EXCEPT ![p] = [op |-> "getVideoInfo", id |-> id]]
          /\ ret' = [ret EXCEPT ![p] = getVideoInfoResult(videos, id)]
    /\ pc' = [pc EXCEPT ![p] = "done"]
    /\ UNCHANGED <<videos, autoIncrement, lastUpdate>>

(***************************************************************************)
(* getVideoList (video.js 41-70).                                         *)
(***************************************************************************)
\* the where clauses without the isHiden one
EligibleShowsHidden(table, showHiden, metadataId) ==
    IF metadataId # 0 THEN {r \in table : r.metadataId = metadataId}
    ELSE table

\* the where clauses without the metadataId one
EligibleAnyMetadata(table, showHiden, metadataId) ==
    IF ~showHiden THEN {r \in table : r.isHiden = 0} ELSE table

\* the where clauses of lines 43-45
Eligible(table, showHiden, metadataId) ==
    LET visible == IF ~showHiden THEN {r \in table : r.isHiden = 0} ELSE table
    IN IF metadataId # 0 THEN {r \in visible : r.metadataId = metadataId}
       ELSE visible

\* orderBy('id', 'asc')
RECURSIVE OrderByIdAsc(_)
OrderByIdAsc(rows) ==
    IF rows = {} THEN << >>
    ELSE LET low == CHOOSE r \in rows : \A q \in rows : r.id <= q.id
         IN <<low>> \o OrderByIdAsc(rows \ {low})

\* orderBy('id', 'desc') of line 46
RECURSIVE OrderByIdDesc(_)
OrderByIdDesc(rows) ==
    IF rows = {} THEN << >>
    ELSE LET top == CHOOSE r \in rows : \A q \in rows : q.id <= r.id
         IN <<top>> \o OrderByIdDesc(rows \ {top})

Min(a, b) == IF a < b THEN a ELSE b

\* paginate({perPage, currentPage}) of lines 46-49: the window of the page
paginate(rows, perPage, currentPage) ==
    SubSeq(rows, (currentPage - 1) * perPage + 1,
           Min(currentPage * perPage, Len(rows)))

\* the caller-facing object of lines 57-66
Processed(item) ==
    [id |-> item.id,
     metadataId |-> item.metadataId,
     videoFileId |-> item.videoFileId,
     isHiden |-> (item.isHiden = 1),
     infoFileId |-> item.infoFileId,
     videoMetadata |-> JSON_parse(item.videoMetadata),
     storyboardFileIdSet |-> JSON_parse(item.storyboardFileIdSet),
     updateTime |-> item.updateTime]

\* the window asked of paginate, perPage and currentPage exchanged
PageWindowSwapped(rows, page, size) == paginate(rows, page, size)

\* lines 46-49: perPage is size, currentPage is page
PageWindow(rows, page, size) == paginate(rows, size, page)

getVideoListResult(table, page, size, showHiden, metadataId) ==
    LET result == PageWindow(OrderByIdDesc(Eligible(table, showHiden, metadataId)),
                             page, size)
        processed == [i \in 1..Len(result) |-> Processed(result[i])]
    IN IF \E i \in 1..Len(result) :
             \/ processed[i].videoMetadata = SyntaxError
             \/ processed[i].storyboardFileIdSet = SyntaxError
       THEN Throw("SyntaxError")
       ELSE Return(processed)

getVideoList(p) ==
    /\ pc[p] = "idle"
    /\ \E page \in 1..MaxPage, size \in 1..MaxSize, showHiden \in BOOLEAN,
          metadataId \in 0..MaxMetaId :
          /\ frame' = [frame EXCEPT ![p] =
                 [op |-> "getVideoList", page |-> page, size |-> size,
                  showHiden |-> showHiden, metadataId |-> metadataId]]
          /\ ret' = [ret EXCEPT ![p] =
                 getVideoListResult(videos, page, size, showHiden, metadataId)]
    /\ pc' = [pc EXCEPT ![p] = "done"]
    /\ UNCHANGED <<videos, autoIncrement, lastUpdate>>

(***************************************************************************)
(* isExistByHash (146-150) and getVideoIdByInfoFileId (159-165).          *)
(***************************************************************************)
\* the count read under a key the answer does not have: undefined === 0 is
\* false
isExistByHashWrongKey(table, hash) == TRUE

\* lines 147-149: false when the count is 0, true otherwise
isExistByHashResult(table, hash) ==
    LET count == Cardinality(WhereHash(table, hash))
    IN IF count = 0 THEN FALSE ELSE TRUE

isExistByHash(p) ==
    /\ pc[p] = "idle"
    /\ \E hash \in Hashes :
          /\ frame' = [frame EXCEPT ![p] = [op |-> "isExistByHash", hash |-> hash]]
          /\ ret' = [ret EXCEPT ![p] =
                 Return(Bool(isExistByHashResult(videos, hash)))]
    /\ pc' = [pc EXCEPT ![p] = "done"]
    /\ UNCHANGED <<videos, autoIncrement, lastUpdate>>

\* the caller takes the outcome of its call and may call again
Finish(p) ==
    /\ pc[p] = "done"
    /\ pc' = [pc EXCEPT ![p] = "idle"]
    /\ frame' = [frame EXCEPT ![p] = NoFrame]
    /\ ret' = [ret EXCEPT ![p] = NoRet]
    /\ UNCHANGED <<videos, autoIncrement, lastUpdate>>

\* the statements that write; calls of several callers overlap
Next ==
    \E p \in Callers :
        \/ CallCreateVideo(p)
        \/ CreateLookupFound(p)
        \/ CreateLookupMissing(p)
        \/ CreateLink(p)
        \/ CreateInsert(p)
        \/ CallHideVideo(p)
        \/ hideVideo(p) /\ UNCHANGED lastUpdate
        \/ CallUnhideVideo(p)
        \/ unhideVideo(p) /\ UNCHANGED lastUpdate
        \/ Finish(p)

Spec == Init /\ [][Next]_vars

\* every operation of the module, one call at a time
SeqCaller == "c1"

\* an update statement that matched a row enters the history of its id
RecordUpdate(p, what) ==
    lastUpdate' =
        IF Affected(videos, frame[p].id) = 0 THEN lastUpdate
        ELSE [lastUpdate EXCEPT ![frame[p].id] =
                 IF what = "unhide" /\ @ = "none" THEN "none" ELSE what]

NextSeq ==
    \/ CallCreateVideo(SeqCaller)
    \/ CreateLookupFound(SeqCaller)
    \/ CreateLookupMissing(SeqCaller)
    \/ CreateLink(SeqCaller)
    \/ CreateInsert(SeqCaller)
    \/ CallHideVideo(SeqCaller)
    \/ hideVideo(SeqCaller) /\ RecordUpdate(SeqCaller, "hide")
    \/ CallUnhideVideo(SeqCaller)
    \/ unhideVideo(SeqCaller) /\ RecordUpdate(SeqCaller, "unhide")
    \/ getVideoInfo(SeqCaller)
    \/ getVideoList(SeqCaller)
    \/ isExistByHash(SeqCaller)
    \/ Finish(SeqCaller)

SpecSeq == Init /\ [][NextSeq]_vars

(***************************************************************************)
(* The table is also written from outside this module: a stored text can  *)
(* lose its end (a column shorter than the text, a partial write).         *)
(***************************************************************************)
Columns == {"videoMetadata", "storyboardFileIdSet"}

\* JSON.parse of the text returns instead of throwing
Decodes(text) == JSON_parse(text) # SyntaxError

\* the text without its last token
Truncated(text) == SubSeq(text, 1, Len(text) - 1)

\* between two calls, one column of one row loses its end
CorruptRow ==
    /\ pc[SeqCaller] = "idle"
    /\ \E r \in videos, col \in Columns :
          /\ Decodes(r[col])
          /\ ~Decodes(Truncated(r[col]))
          /\ videos' = (videos \ {r}) \cup {[r EXCEPT ![col] = Truncated(@)]}
    /\ UNCHANGED <<autoIncrement, pc, frame, ret, lastUpdate>>

\* rows are created, listed, and damaged in between
NextCorrupt ==
    \/ CallCreateVideo(SeqCaller)
    \/ CreateLookupFound(SeqCaller)
    \/ CreateLookupMissing(SeqCaller)
    \/ CreateLink(SeqCaller)
    \/ CreateInsert(SeqCaller)
    \/ getVideoList(SeqCaller)
    \/ CorruptRow
    \/ Finish(SeqCaller)

SpecCorrupt == Init /\ [][NextCorrupt]_vars

(***************************************************************************)
(* The metadata list routes (api/route/metadata.js 29-101): path          *)
(* parameters page and size, parseInt, the range test, the module call.    *)
(***************************************************************************)
DefaultPage == 1
DefaultSize == 20
MaxPerPage == 50

\* a path parameter as express hands it over: a string, character by character
Text(chars) == [t |-> "str", c |-> chars]
NaN == [t |-> "nan"]

DigitChars == <<"0", "1", "2", "3", "4", "5", "6", "7", "8", "9">>
IsDigit(c) == \E d \in 1..10 : DigitChars[d] = c
DigitOf(c) == (CHOOSE d \in 1..10 : DigitChars[d] = c) - 1

\* the path parameters requests carry; Undefined is a segment left out
Params ==
    {Undefined, Text(<<"0">>), Text(<<"1">>), Text(<<"2">>),
     Text(<<"5", "0">>), Text(<<"5", "1">>), Text(<<"-", "1">>),
     Text(<<"a", "b", "c">>), Text(<<"2", ".", "5">>), Text(<<"3", "a", "b">>)}

\* x || d: undefined and the empty string are falsy
OrDefault(x, d) == IF x = Undefined \/ x = Text(<< >>) THEN Num(d) ELSE x

RECURSIVE SkipWhiteSpace(_, _)
\* the index of the first character that is not white space
SkipWhiteSpace(chars, i) ==
    IF i <= Len(chars) /\ chars[i] = " " THEN SkipWhiteSpace(chars, i + 1) ELSE i

RECURSIVE ParseDigits(_, _, _)
\* the value of the run of digits from index i on, and the index after it
ParseDigits(chars, i, acc) ==
    IF i <= Len(chars) /\ IsDigit(chars[i])
    THEN ParseDigits(chars, i + 1, acc * 10 + DigitOf(chars[i]))
    ELSE [n |-> acc, next |-> i]

\* parseInt(x): a number is read through its decimal text; of a string the
\* leading white space is skipped, a sign accepted, and the longest run of
\* digits read, whatever follows it; NaN when there is no digit
parseInt(x) ==
    IF x.t = "num" THEN x
    ELSE LET chars == x.c
             start == SkipWhiteSpace(chars, 1)
             signed == start <= Len(chars) /\ chars[start] \in {"-", "+"}
             first == IF signed THEN start + 1 ELSE start
             digits == ParseDigits(chars, first, 0)
         IN IF digits.next = first THEN NaN
            ELSE IF signed /\ chars[start] = "-" THEN Num(0 - digits.n)
            ELSE Num(digits.n)

\* a < b of two numbers: false whenever one of them is NaN
LessThan(a, b) == a.t = "num" /\ b.t = "num" /\ a.n < b.n

\* the test of lines 35, 59 and 83
ParamError(page, size) ==
    \/ LessThan(page, Num(1))
    \/ LessThan(size, Num(1))
    \/ LessThan(Num(MaxPerPage), size)

\* the body res.json is given on a parameter error
ParamErrorBody == [code |-> 0 - 2, msg |-> "Param error"]
SuccessBody == [code |-> 0, msg |-> "Success"]

ListRoutes == {"getList", "getListByMeta", "getMetaList"}

\* the module function each route calls
ListFunction(route) ==
    CASE route = "getList" -> "getMetadataList"
      [] route = "getListByMeta" -> "getMetadataListByMetaId"
      [] route = "getMetaList" -> "getMetaList"

\* a request for one of the list routes arrives
RequestList(p) ==
    /\ pc[p] = "idle"
    /\ \E route \in ListRoutes, page \in Params, size \in Params :
          frame' = [frame EXCEPT ![p] =
                       [op |-> route, page |-> page, size |-> size]]
    /\ pc' = [pc EXCEPT ![p] = "route"]
    /\ UNCHANGED <<videos, autoIncrement, ret, lastUpdate>>

\* the handler up to its first await: parse, test, answer or call the module
Handle(p) ==
    /\ pc[p] = "route"
    /\ LET page == parseInt(OrDefault(frame[p].page, DefaultPage))
           size == parseInt(OrDefault(frame[p].size, DefaultSize))
       IN IF ParamError(page, size)
          THEN /\ ret' = [ret EXCEPT ![p] = Return(ParamErrorBody)]
               /\ pc' = [pc EXCEPT ![p] = "done"]
               /\ UNCHANGED frame
          ELSE /\ frame' = [frame EXCEPT ![p] =
                               @ @@ [call |-> [fn |-> ListFunction(frame[p].op),
                                               page |-> page, size |-> size]]]
               /\ pc' = [pc EXCEPT ![p] = "module"]
               /\ UNCHANGED ret
    /\ UNCHANGED <<videos, autoIncrement, lastUpdate>>

getList(p) ==
    /\ frame[p].op = "getList"
    /\ Handle(p)

getListByMeta(p) ==
    /\ frame[p].op = "getListByMeta"
    /\ Handle(p)

getMetaList(p) ==
    /\ frame[p].op = "getMetaList"
    /\ Handle(p)

\* the module call settles: its answer is sent, or its rejection leaves the
\* handler
ModuleSettles(p) ==
    /\ pc[p] = "module"
    /\ \E outcome \in {Return(SuccessBody), Throw("rejected")} :
          ret' = [ret EXCEPT ![p] = outcome]
    /\ pc' = [pc EXCEPT ![p] = "done"]
    /\ UNCHANGED <<videos, autoIncrement, frame, lastUpdate>>

NextRoute ==
    \/ RequestList(SeqCaller)
    \/ getList(SeqCaller)
    \/ getListByMeta(SeqCaller)
    \/ getMetaList(SeqCaller)
    \/ ModuleSettles(SeqCaller)
    \/ Finish(SeqCaller)

SpecRoute == Init /\ [][NextRoute]_vars

(***************************************************************************)
(* Claims.                                                                *)
(***************************************************************************)
HashOf(r) == JSON_EXTRACT_hash(r.videoMetadata)
IsCreate(p) == frame[p].op = "createVideo"

\* C1: in every reachable state, whatever the interleaving of createVideo
\* calls, at most one row exists per videoMetadata.hash value.
C1_OneRowPerHash ==
    \A r1, r2 \in videos : HashOf(r1) = HashOf(r2) => r1 = r2

\* C2: a createVideo that runs without another createVideo in between and
\* finds a row with the hash of info answers the id of that row, inserts no
\* row and raises no error, whatever the other fields of info and fileIds.
C2_DuplicateReturnsExistingId ==
    [][\A p \in Callers :
          /\ (pc[p] = "idle" /\ pc'[p] = "lookup") => videos' = videos
          /\ (pc[p] = "lookup" /\ pc'[p] # "lookup"
              /\ \E r \in videos : HashOf(r) = Get(frame[p].info, "hash"))
             => /\ pc'[p] = "done"
                /\ ret'[p].kind = "return"
                /\ \E r \in videos :
                      /\ HashOf(r) = Get(frame[p].info, "hash")
                      /\ ret'[p].val = Num(r.id)
                /\ videos' = videos
                /\ Cardinality(videos') = Cardinality(videos)]_vars

\* a duplicate createVideo, differing from the stored row in its other
\* fields and in its file ids, has answered the stored row's id
C2_Witness ==
    \E p \in Callers, r \in videos :
        /\ pc[p] = "done" /\ IsCreate(p)
        /\ ret[p] = Return(Num(r.id))
        /\ HashOf(r) = Get(frame[p].info, "hash")
        /\ r.videoMetadata # JSON_stringify(frame[p].info)
        /\ r.videoFileId # frame[p].fileIds.videoId
        /\ r.infoFileId # frame[p].fileIds.metaId

\* C3: when the Metadata Linker answers 0, createVideo returns no id and
\* persists no row, so isExistByHash of a hash that was absent stays false;
\* and every row of the table has a non-zero metadataId.
C3_LinkageFailurePersistsNothing ==
    /\ [](\A r \in videos : r.metadataId # 0)
    /\ [][\A p \in Callers :
            (pc[p] = "link" /\ pc'[p] # "link" /\ frame'[p].metaId = 0)
            => /\ pc'[p] = "done"
               /\ ret'[p] = Return(Undefined)
               /\ videos' = videos
               /\ \A h \in Hashes :
                     ~isExistByHashResult(videos, h)
                     => ~isExistByHashResult(videos', h)]_vars

\* a createVideo of a fresh hash has ended on the linker's answer 0, with
\* other rows in the table
C3_Witness ==
    \E p \in Callers :
        /\ pc[p] = "done" /\ IsCreate(p)
        /\ "metaId" \in DOMAIN frame[p] /\ frame[p].metaId = 0
        /\ ret[p] = Return(Undefined)
        /\ videos # {}
        /\ ~isExistByHashResult(videos, Get(frame[p].info, "hash"))

\* the object getVideoInfo is to answer for a row created from info and
\* fileIds and not hidden since
Created(r, info, fileIds) ==
    [id |-> r.id,
     metadataId |-> MetadataIdOf(Get(info, "company").s \o "-" \o Get(info, "id").s),
     videoFileId |-> fileIds.videoId,
     isHiden |-> FALSE,
     infoFileId |-> fileIds.metaId,
     videoMetadata |-> info,
     storyboardFileIdSet |-> fileIds.storyboardId,
     updateTime |-> r.updateTime]

\* C4: createVideo(info, fileIds) of a fresh hash with a successful linkage,
\* followed by getVideoInfo of the id it returned, answers a record whose
\* id, metadataId, videoFileId, infoFileId, decoded videoMetadata and decoded
\* storyboardFileIdSet are those given at creation, with hidden flag false.
C4_CreateThenGetVideoInfo ==
    \A p \in Callers :
        (pc[p] = "done" /\ frame[p].op = "getVideoInfo"
         /\ lastUpdate[frame[p].id] = "none")
        => \A r \in RowsById(videos, frame[p].id) :
              \E info \in Infos, fileIds \in FileIdSets :
                  /\ r.videoMetadata = JSON_stringify(info)
                  /\ r.videoFileId = fileIds.videoId
                  /\ ret[p] = Return(Created(r, info, fileIds))

IsList(p) == frame[p].op = "getVideoList"
HasRow(id) == RowsById(videos, id) # {}
IdsIn(items) == {items[i].id : i \in 1..Len(items)}
IdSeq(items) == [i \in 1..Len(items) |-> items[i].id]

\* eligibility as the listing contract words it
Listable(r, showHiden, metadataId) ==
    /\ showHiden \/ r.isHiden = 0
    /\ metadataId = 0 \/ r.metadataId = metadataId

\* the rank of row r among the listable rows, 1 for the largest id
Rank(r, showHiden, metadataId) ==
    Cardinality({q \in videos :
                    Listable(q, showHiden, metadataId) /\ q.id >= r.id})

\* a finished getVideoList call of caller p
Listed(p) == pc[p] = "done" /\ IsList(p)

\* the page whose window covers a rank
PageOfRank(rank, size) == ((rank - 1) \div size) + 1

\* C5: once hideVideo(id) has matched a row, and until an unhideVideo(id)
\* matches it, no getVideoList with showHiden = false returns id on any
\* page, and getVideoList with showHiden = true returns it on the page
\* whose window covers its rank.
C5_HiddenRowListedOnlyOnRequest ==
    \A p \in Callers, r \in videos :
        (Listed(p) /\ lastUpdate[r.id] = "hide")
        => /\ ret[p].kind = "return"
           /\ ~frame[p].showHiden => r.id \notin IdsIn(ret[p].val)
           /\ (/\ frame[p].showHiden
               /\ Listable(r, TRUE, frame[p].metadataId)
               /\ frame[p].page = PageOfRank(Rank(r, TRUE, frame[p].metadataId),
                                             frame[p].size))
              => r.id \in IdsIn(ret[p].val)

\* a listing that shows hidden rows has returned a row hidden by hideVideo,
\* on a page after the first
C5_Witness ==
    \E p \in Callers, r \in videos :
        /\ Listed(p)
        /\ frame[p].showHiden /\ frame[p].page > 1
        /\ lastUpdate[r.id] = "hide"
        /\ ret[p].kind = "return" /\ r.id \in IdsIn(ret[p].val)

\* C6: after hideVideo(id) followed by unhideVideo(id) on an existing row,
\* getVideoInfo(id) answers a record whose hidden flag is false.
C6_UnhideThenGetVideoInfo ==
    \A p \in Callers :
        (pc[p] = "done" /\ frame[p].op = "getVideoInfo"
         /\ HasRow(frame[p].id) /\ lastUpdate[frame[p].id] = "unhide")
        => /\ ret[p].kind = "return"
           /\ ret[p].val # Null
           /\ ret[p].val.isHiden = FALSE

RECURSIVE Pages(_, _, _, _, _)
\* the results of pages from..k of the table as it is, one after the other
Pages(from, k, size, showHiden, metadataId) ==
    IF from > k THEN << >>
    ELSE getVideoListResult(videos, from, size, showHiden, metadataId).val
         \o Pages(from + 1, k, size, showHiden, metadataId)

\* C7: on an unchanging table every getVideoList(page, size, ...) returns at
\* most size items, and the results of pages 1..k, in order, hold no id
\* twice and are strictly descending by id.
C7_PagesBoundedDistinctDescending ==
    \A p \in Callers :
        Listed(p)
        => /\ ret[p].kind = "return"
           /\ Len(ret[p].val) <= frame[p].size
           /\ LET all == IdSeq(Pages(1, frame[p].page - 1, frame[p].size,
                                     frame[p].showHiden, frame[p].metadataId)
                               \o ret[p].val)
              IN /\ \A i, j \in 1..Len(all) : i < j => all[i] > all[j]
                 /\ Cardinality({all[i] : i \in 1..Len(all)}) = Len(all)

\* a second page of a listing has returned as many rows as the first
C7_Witness ==
    \E p \in Callers :
        /\ Listed(p)
        /\ frame[p].page = 2
        /\ ret[p].kind = "return" /\ Len(ret[p].val) = frame[p].size
        /\ Len(Pages(1, 1, frame[p].size, frame[p].showHiden,
                     frame[p].metadataId)) = frame[p].size

\* C8: getVideoList(page, size, showHiden, metadataId) returns exactly the
\* eligible rows of ranks (page-1)*size+1 .. page*size in descending id
\* order, a row being eligible iff (showHiden or it is not hidden) and (no
\* metadata filter is given or its metadataId equals the filter).
C8_ListReturnsRankedEligibleRows ==
    \A p \in Callers :
        Listed(p)
        => LET showHiden == frame[p].showHiden
               metadataId == frame[p].metadataId
               lo == (frame[p].page - 1) * frame[p].size
               wanted == {r \in videos :
                             /\ Listable(r, showHiden, metadataId)
                             /\ Rank(r, showHiden, metadataId) > lo
                             /\ Rank(r, showHiden, metadataId)
                                   <= lo + frame[p].size}
           IN /\ ret[p].kind = "return"
              /\ Len(ret[p].val) = Cardinality(wanted)
              /\ \A r \in wanted :
                    LET item == ret[p].val[Rank(r, showHiden, metadataId) - lo]
                    IN /\ item.id = r.id
                       /\ item.metadataId = r.metadataId
                       /\ item.isHiden = (r.isHiden = 1)

\* a listing by metadata id that leaves hidden rows out has returned a row
\* while the table holds a hidden row and a row of another metadata id
C8_Witness ==
    \E p \in Callers, h \in videos, o \in videos :
        /\ Listed(p)
        /\ ~frame[p].showHiden /\ frame[p].metadataId # 0
        /\ h.isHiden = 1
        /\ o.metadataId # frame[p].metadataId
        /\ ret[p].kind = "return" /\ Len(ret[p].val) > 0

\* C9: a page beyond the data returns the empty sequence, not an error;
\* with exactly size eligible rows, page 1 returns all of them and page 2
\* returns the empty sequence.
C9_PageBeyondDataIsEmpty ==
    \A p \in Callers :
        Listed(p)
        => LET n == Cardinality({r \in videos :
                       Listable(r, frame[p].showHiden, frame[p].metadataId)})
               page == frame[p].page
               size == frame[p].size
           IN /\ (page - 1) * size >= n => ret[p] = Return(<< >>)
              /\ (n = size /\ page = 1)
                 => ret[p].kind = "return" /\ Len(ret[p].val) = size
              /\ (n = size /\ page = 2) => ret[p] = Return(<< >>)

\* page 2 has returned the empty sequence with exactly size rows eligible,
\* size being more than one
C9_Witness ==
    \E p \in Callers :
        /\ Listed(p)
        /\ frame[p].page = 2 /\ frame[p].size > 1
        /\ Cardinality({r \in videos :
               Listable(r, frame[p].showHiden, frame[p].metadataId)})
              = frame[p].size
        /\ ret[p] = Return(<< >>)

\* C10: hideVideo(id) and unhideVideo(id) return false, raise no error and
\* leave the table unchanged when no row has that id; they return true when
\* a row has it, and its hidden flag is then true after hideVideo and false
\* after unhideVideo.
C10_UpdateReportsWhetherRowExists ==
    [][\A p \in Callers :
          (pc[p] \in {"hide", "unhide"} /\ pc'[p] # pc[p])
          => /\ pc'[p] = "done"
             /\ IF HasRow(frame[p].id)
                THEN /\ ret'[p] = Return(Bool(TRUE))
                     /\ RowsById(videos', frame[p].id) # {}
                     /\ \A r \in RowsById(videos', frame[p].id) :
                           r.isHiden = IF pc[p] = "hide" THEN 1 ELSE 0
                ELSE /\ ret'[p] = Return(Bool(FALSE))
                     /\ videos' = videos]_vars

\* one caller's hideVideo has returned true on a row now hidden while
\* another's unhideVideo has returned false on an id no row has
C10_Witness ==
    \E p \in Callers, q \in Callers :
        /\ pc[p] = "done" /\ frame[p].op = "hideVideo"
        /\ ret[p] = Return(Bool(TRUE))
        /\ \E r \in RowsById(videos, frame[p].id) : r.isHiden = 1
        /\ pc[q] = "done" /\ frame[q].op = "unhideVideo"
        /\ ret[q] = Return(Bool(FALSE))
        /\ ~HasRow(frame[q].id)

\* the whole table listed on one page, hidden rows included
WholeList(table) == getVideoListResult(table, 1, Cardinality(table) + 1, TRUE, 0)

\* the item of a listing that carries the id
ItemOf(items, id) == items[CHOOSE i \in 1..Len(items) : items[i].id = id]

\* C11: for every row created by createVideo(info, fileIds), the
\* videoMetadata and storyboardFileIdSet getVideoList returns for it equal
\* info and fileIds.storyboardId as given, an empty storyboard collection
\* and nested objects inside info included.
C11_ListDecodesWhatCreateEncoded ==
    [][\A p \in Callers :
          /\ (pc[p] = "insert" /\ pc'[p] = "done")
             => LET res == WholeList(videos')
                    id == ret'[p].val.n
                IN /\ res.kind = "return"
                   /\ id \in IdsIn(res.val)
                   /\ ItemOf(res.val, id).videoMetadata = frame[p].info
                   /\ ItemOf(res.val, id).storyboardFileIdSet
                         = frame[p].fileIds.storyboardId
          /\ \A r \in videos :
                \E r2 \in videos' :
                   /\ r2.id = r.id
                   /\ Processed(r2).videoMetadata = Processed(r).videoMetadata
                   /\ Processed(r2).storyboardFileIdSet
                         = Processed(r).storyboardFileIdSet]_vars

\* a listing has returned a row with nested objects in its videoMetadata
\* and a row with an empty storyboard collection
C11_Witness ==
    \E p \in Callers :
        /\ Listed(p) /\ ret[p].kind = "return"
        /\ \E i, j \in 1..Len(ret[p].val) :
              /\ ret[p].val[i].videoMetadata = InfoB
              /\ ret[p].val[i].storyboardFileIdSet = Arr(<<Num(23), Num(24)>>)
              /\ ret[p].val[j].videoMetadata = InfoD
              /\ ret[p].val[j].storyboardFileIdSet = Arr(<< >>)

\* C12: isExistByHash(hash) returns true if and only if at least one row
\* has videoMetadata.hash equal to hash, and it never changes the table.
C12_ExistsIffSomeRowHasHash ==
    [][\A p \in Callers :
          (pc[p] = "idle" /\ pc'[p] = "done"
           /\ frame'[p].op = "isExistByHash")
          => /\ ret'[p] = Return(Bool(\E r \in videos :
                    Get(JSON_parse(r.videoMetadata), "hash") = frame'[p].hash))
             /\ videos' = videos
             /\ autoIncrement' = autoIncrement]_vars

\* isExistByHash has answered true for a stored hash, with a row of another
\* hash in the table as well
C12_Witness ==
    \E p \in Callers, r \in videos, o \in videos :
        /\ pc[p] = "done" /\ frame[p].op = "isExistByHash"
        /\ HashOf(r) = frame[p].hash /\ HashOf(o) # frame[p].hash
        /\ ret[p] = Return(Bool(TRUE))

\* the ids the table holds
IdsOf(table) == {r.id : r \in table}

\* the caller's step executes the UPDATE of a hideVideo or unhideVideo
IsUpdateStep(p) == pc[p] \in {"hide", "unhide"} /\ pc'[p] = "done"

\* C13: every row is created with isHiden 0, and the isHiden of an existing
\* row changes only in a hideVideo or unhideVideo step on that row's id: no
\* createVideo (one with the hash of a hidden row included) and no read
\* changes any row's isHiden.
C13_HiddenFlagChangesOnlyByUpdate ==
    [][/\ \A n \in videos' : n.id \notin IdsOf(videos) => n.isHiden = 0
       /\ \A r \in videos, n \in videos' :
             (n.id = r.id /\ n.isHiden # r.isHiden)
             => \E p \in Callers : IsUpdateStep(p) /\ frame[p].id = r.id]_vars

\* a createVideo with the hash of a hidden row has returned that row's id,
\* and the row is still hidden
C13_Witness ==
    \E p \in Callers, r \in videos :
        /\ pc[p] = "done" /\ IsCreate(p)
        /\ ret[p] = Return(Num(r.id))
        /\ r.isHiden = 1
        /\ HashOf(r) = Get(frame[p].info, "hash")

\* C14: hideVideo(id) and unhideVideo(id) change at most the isHiden of the
\* row with that id: that row's id, metadataId, videoFileId, infoFileId,
\* storyboardFileIdSet, videoMetadata and updateTime, every field of every
\* other row, and the set of rows are unchanged.
C14_UpdateChangesOnlyTheFlag ==
    [][\A p \in Callers :
          IsUpdateStep(p)
          => /\ IdsOf(videos') = IdsOf(videos)
             /\ Cardinality(videos') = Cardinality(videos)
             /\ autoIncrement' = autoIncrement
             /\ \A r \in videos :
                   \E n \in videos' :
                      /\ n = [r EXCEPT !.isHiden = n.isHiden]
                      /\ r.id # frame[p].id => n = r]_vars

\* a hideVideo has hidden one row of a table of two, the other row visible
C14_Witness ==
    \E p \in Callers, r \in videos, o \in videos :
        /\ pc[p] = "done" /\ frame[p].op = "hideVideo"
        /\ ret[p] = Return(Bool(TRUE))
        /\ r.id = frame[p].id /\ r.isHiden = 1
        /\ o.id # r.id /\ o.isHiden = 0

\* the ids of a listing fall strictly from one item to the next
Descending(items) ==
    \A i, j \in 1..Len(items) : i < j => items[i].id > items[j].id

\* C15: row ids are unique, never reused and assigned in strictly increasing
\* order of insertion, and no operation deletes a row or changes its id;
\* hence getVideoList returns the most recently created rows first.
C15_IdsUniqueIncreasingNeverRemoved ==
    /\ [](/\ \A r1, r2 \in videos : r1.id = r2.id => r1 = r2
          /\ \A r \in videos : r.id < autoIncrement
          /\ \A p \in Callers :
                (Listed(p) /\ ret[p].kind = "return") => Descending(ret[p].val))
    /\ [][/\ IdsOf(videos) \subseteq IdsOf(videos')
          /\ Cardinality(videos') >= Cardinality(videos)
          /\ autoIncrement' >= autoIncrement
          /\ \A n \in videos' :
                n.id \notin IdsOf(videos)
                => /\ n.id >= autoIncrement /\ n.id < autoIncrement'
                   /\ \A r \in videos : r.id < n.id]_vars

\* h1 was created as 1, h2 as 2, 2 hidden afterwards: page 1 lists [1]
C15_Witness ==
    \E p \in Callers, r1 \in videos, r2 \in videos :
        /\ Listed(p) /\ frame[p].page = 1 /\ ~frame[p].showHiden
        /\ frame[p].metadataId = 0
        /\ r1.id = 1 /\ HashOf(r1) = Str("h1") /\ r1.isHiden = 0
        /\ r2.id = 2 /\ HashOf(r2) = Str("h2") /\ r2.isHiden = 1
        /\ ret[p].kind = "return" /\ IdSeq(ret[p].val) = <<1>>

\* C16: getVideoInfo(id) with an id no row has returns null, raises no
\* error and leaves the table as it was.
C16_GetVideoInfoOfUnknownIdIsNull ==
    \A p \in Callers :
        (pc[p] = "done" /\ frame[p].op = "getVideoInfo" /\ ~HasRow(frame[p].id))
        => ret[p] = Return(Null)

\* the value the caller's pending UPDATE writes
Written(p) == IF pc[p] = "hide" THEN 1 ELSE 0

\* another caller is inside a hideVideo or unhideVideo of the same id
Contended(p) ==
    \E q \in Callers \ {p} :
        /\ frame[q].op \in {"hideVideo", "unhideVideo"}
        /\ frame[q].op # frame[p].op
        /\ frame[q].id = frame[p].id

\* C17: when hideVideo(id) and unhideVideo(id) overlap on an existing id,
\* each UPDATE is one atomic step: it returns true and leaves the row with
\* the value it writes, no other field or row differs, and no other step
\* changes the flag, so the final isHiden is the value of the UPDATE executed
\* last.
C17_LastUpdateWins ==
    [][/\ \A p \in Callers :
             (IsUpdateStep(p) /\ Contended(p) /\ HasRow(frame[p].id))
             => /\ ret'[p] = Return(Bool(TRUE))
                /\ videos' = {IF r.id = frame[p].id
                              THEN [r EXCEPT !.isHiden = Written(p)]
                              ELSE r : r \in videos}
                /\ \A n \in videos' : n.id = frame[p].id => n.isHiden = Written(p)
       /\ (\A p \in Callers : ~IsUpdateStep(p))
          => \A r \in videos : \E n \in videos' : n.id = r.id /\ n.isHiden = r.isHiden]_vars

\* overlapping hideVideo(id) and unhideVideo(id) have both returned true with
\* the row left visible (the unhide ran last) beside a hidden row of another
\* id
C17_Witness ==
    \E p \in Callers, q \in Callers, r \in videos, o \in videos :
        /\ pc[p] = "done" /\ frame[p].op = "hideVideo"
        /\ pc[q] = "done" /\ frame[q].op = "unhideVideo"
        /\ frame[p].id = r.id /\ frame[q].id = r.id
        /\ ret[p] = Return(Bool(TRUE)) /\ ret[q] = Return(Bool(TRUE))
        /\ r.isHiden = 0
        /\ o.id # r.id /\ o.isHiden = 1

\* the same two calls with the row left hidden (the hide ran last)
C17_HideLast ==
    \E p \in Callers, q \in Callers, r \in videos :
        /\ pc[p] = "done" /\ frame[p].op = "hideVideo"
        /\ pc[q] = "done" /\ frame[q].op = "unhideVideo"
        /\ frame[p].id = r.id /\ frame[q].id = r.id
        /\ ret[p] = Return(Bool(TRUE)) /\ ret[q] = Return(Bool(TRUE))
        /\ r.isHiden = 1

\* C20: in createVideo the hash lookup precedes the linker: a call whose
\* lookup finds a row with the hash returns that row's id without the linker
\* being called, and the linker is called at most once per call (it is
\* entered from the lookup only, and left for the insert or the return).
C20_LookupPrecedesLinker ==
    [][\A p \in Callers :
          /\ (pc[p] = "lookup" /\ pc'[p] # "lookup"
              /\ LookupByHash(videos, frame[p].info) # {})
             => /\ pc'[p] = "done"
                /\ "metaId" \notin DOMAIN frame'[p]
                /\ \E r \in LookupByHash(videos, frame[p].info) :
                      ret'[p] = Return(Num(r.id))
                /\ videos' = videos
          /\ (pc'[p] = "link" /\ pc[p] # "link") => pc[p] = "lookup"
          /\ (pc[p] = "link" /\ pc'[p] # "link")
             => (pc'[p] \in {"insert", "done"} /\ "metaId" \in DOMAIN frame'[p])
          /\ (pc[p] = "insert" /\ pc'[p] # "insert") => pc'[p] = "done"]_vars

\* a createVideo has returned the id of a row the other caller inserted
\* while it was being called, without a linker answer in its frame
C20_Witness ==
    \E p \in Callers, q \in Callers, r \in videos :
        /\ p # q
        /\ pc[p] = "done" /\ IsCreate(p)
        /\ ret[p] = Return(Num(r.id))
        /\ "metaId" \notin DOMAIN frame[p]
        /\ HashOf(r) = Get(frame[p].info, "hash")
        /\ pc[q] = "done" /\ IsCreate(q) /\ ret[q] = Return(Num(r.id))
        /\ "metaId" \in DOMAIN frame[q]

\* the rows getVideoList(page, size, showHiden, metadataId) is asked for
OnPage(page, size, showHiden, metadataId) ==
    {r \in videos :
        /\ Listable(r, showHiden, metadataId)
        /\ PageOfRank(Rank(r, showHiden, metadataId), size) = page}

\* one of the row's two encoded columns does not decode
Undecodable(r) ==
    ~Decodes(r.videoMetadata) \/ ~Decodes(r.storyboardFileIdSet)

\* C18: when one row on the requested page has a videoMetadata or
\* storyboardFileIdSet text that fails to decode, getVideoList does not
\* abort the listing: it returns, and the other rows of the page are in
\* what it returns.
C18_UndecodableRowDoesNotAbortListing ==
    \A p \in Callers :
        Listed(p)
        => LET rows == OnPage(frame[p].page, frame[p].size,
                              frame[p].showHiden, frame[p].metadataId)
               bad == {r \in rows : Undecodable(r)}
           IN (Cardinality(bad) = 1 /\ rows # bad)
              => /\ ret[p].kind = "return"
                 /\ \A r \in rows \ bad : r.id \in IdsIn(ret[p].val)

\* the text is a decimal integer: an optional sign and digits, nothing else
IsIntegerText(x) ==
    /\ x.t = "str"
    /\ LET first == IF Len(x.c) > 0 /\ x.c[1] \in {"-", "+"} THEN 2 ELSE 1
       IN /\ first <= Len(x.c)
          /\ \A i \in first..Len(x.c) : IsDigit(x.c[i])

RECURSIVE DecimalValue(_, _)
\* the number the first i characters of a run of digits denote
DecimalValue(chars, i) ==
    IF i = 0 THEN 0 ELSE DecimalValue(chars, i - 1) * 10 + DigitOf(chars[i])

\* the integer a parameter denotes, d for one left out
ValueOf(x, d) ==
    IF x = Undefined THEN d
    ELSE IF x.c[1] = "-" THEN 0 - DecimalValue(Tail(x.c), Len(x.c) - 1)
    ELSE IF x.c[1] = "+" THEN DecimalValue(Tail(x.c), Len(x.c) - 1)
    ELSE DecimalValue(x.c, Len(x.c))

\* the parameter is a number at all: digits with at most one point
IsNumericText(x) ==
    /\ x.t = "str"
    /\ LET first == IF Len(x.c) > 0 /\ x.c[1] \in {"-", "+"} THEN 2 ELSE 1
       IN /\ \E i \in first..Len(x.c) : IsDigit(x.c[i])
          /\ \A i \in first..Len(x.c) : IsDigit(x.c[i]) \/ x.c[i] = "."
          /\ Cardinality({i \in first..Len(x.c) : x.c[i] = "."}) <= 1

\* page < 1, size < 1, size > 50, or a value that is not a number
MustBeRejected(page, size) ==
    \/ (page # Undefined /\ ~IsNumericText(page))
    \/ (size # Undefined /\ ~IsNumericText(size))
    \/ ((page = Undefined \/ IsIntegerText(page)) /\ ValueOf(page, DefaultPage) < 1)
    \/ ((size = Undefined \/ IsIntegerText(size))
        /\ (ValueOf(size, DefaultSize) < 1 \/ ValueOf(size, DefaultSize) > MaxPerPage))

\* C19: in the metadata list routes the module's list function is called
\* only with an integer page >= 1 and an integer size in 1..50, and every
\* other page or size parameter (page < 1, size < 1, size > 50, not a
\* number) is answered 'Param error', code -2, without the module called.
C19_ListModuleCalledOnlyWithValidPaging ==
    \A p \in Callers :
        frame[p].op \in ListRoutes
        => /\ "call" \in DOMAIN frame[p]
              => /\ frame[p].call.page.t = "num" /\ frame[p].call.page.n >= 1
                 /\ frame[p].call.size.t = "num"
                 /\ frame[p].call.size.n \in 1..MaxPerPage
           /\ (pc[p] # "route" /\ MustBeRejected(frame[p].page, frame[p].size))
              => /\ "call" \notin DOMAIN frame[p]
                 /\ ret[p] = Return(ParamErrorBody)

====
